---- MODULE Spec2Model ----
(***************************************************************************)
(* A model of the two data structures of the repository:                   *)
(*   - LRUKReplacer        (src/src/buffer/lru_k_replacer.cpp)             *)
(*   - ExtendibleHashTable (src/src/container/hash/extendible_hash_table.cpp) *)
(* Lists are sequences whose index 1 is the front (begin()) and whose last *)
(* index is the back (rbegin()).                                           *)
(***************************************************************************)
EXTENDS Integers, Sequences, FiniteSets, TLC

\* ------------------------------------------------------------------ bounds
\* num_frames handed to the constructor
Capacity == 2
\* k handed to the constructor ranges over 1..MaxK
MaxK == 3
\* number of accepted RecordAccess calls in one run
MaxClock == 4
\* keys are 0..MaxKey, values 1..MaxVal, bucket_size ranges over 1..MaxBucketSize
MaxKey == 2
MaxVal == 2
MaxBucketSize == 2
\* the width of a hash value in bits (64 for size_t), scaled down; only keys
\* below 2^HashBits are used, so that distinct keys have distinct hashes
HashBits == 2

\* threads calling into one replacer
NumThreads == 2

\* ------------------------------------------------------- LRUKReplacer state
VARIABLES
  replacer_size_,  \* size_t replacer_size_
  k_,              \* size_t k_
  access_count_,   \* unordered_map<frame_id_t, size_t>; an absent key reads 0
  is_evictable_,   \* unordered_map<frame_id_t, bool>;   an absent key reads false
  history_list_,   \* std::list<frame_id_t>
  history_hash_,   \* keys of the map frame -> iterator into history_list_
  lru_k_list_,     \* std::list<frame_id_t>
  lru_k_hash_,     \* keys of the map frame -> iterator into lru_k_list_
  curr_size_,      \* size_t curr_size_, kept modulo 2^64 with -1 standing for
                   \* 2^64 - 1 (the code compares it with 0 only)
  crashed,         \* the process ended in undefined behaviour
  last,            \* the last call and what it returned
  clock,           \* history variable: number of accesses recorded so far
  accesses,        \* history variable: the frames of the accepted accesses
                   \* in the order of the calls, oldest first, without the
                   \* accesses of frames dropped since and those older than
                   \* a frame's K most recent
  dropped,         \* history variable: the frames Evict or Remove dropped that
                   \* have not been accessed since
  again            \* history variable: the last call was an accepted
                   \* RecordAccess of a frame that had been dropped

rvars == <<replacer_size_, k_, access_count_, is_evictable_, history_list_,
           history_hash_, lru_k_list_, lru_k_hash_, curr_size_, crashed, last,
           clock, accesses, dropped, again>>

\* frame ids the callers hand in: [0, capacity), capacity itself (which the
\* range test lets through) and one past it
FrameIds == 0..(Capacity + 1)
NoFrame == Capacity + 2

Max(S) == CHOOSE x \in S : \A y \in S : y <= x
Min(S) == CHOOSE x \in S : \A y \in S : x <= y

PushFront(list, f) == <<f>> \o list
EraseElem(list, f) == SelectSeq(list, LAMBDA x : x # f)
Elems(list) == {list[i] : i \in 1..Len(list)}

\* list.erase(hash[f]): with f a key of hash the iterator names f's node; with
\* f absent operator[] yields a value-initialised iterator and erasing it is
\* undefined: the process dies or the list is left as it was.
ListErase(list, hash, f) ==
  IF f \in hash
  THEN {[crash |-> FALSE, list |-> EraseElem(list, f)]}
  ELSE {[crash |-> TRUE, list |-> list], [crash |-> FALSE, list |-> list]}

\* what a call gave back: how it ended, the frame Evict stored through its
\* pointer and the number Size returned
Ret(op, res, frame, n) == [op |-> op, res |-> res, frame |-> frame, n |-> n]

RInit ==
  /\ replacer_size_ = Capacity
  /\ k_ \in 1..MaxK
  /\ access_count_ = [f \in FrameIds |-> 0]
  /\ is_evictable_ = [f \in FrameIds |-> FALSE]
  /\ history_list_ = <<>>
  /\ history_hash_ = {}
  /\ lru_k_list_ = <<>>
  /\ lru_k_hash_ = {}
  /\ curr_size_ = 0
  /\ crashed = FALSE
  /\ last = Ret("new", "ok", NoFrame, 0)
  /\ clock = 0
  /\ accesses = <<>>
  /\ dropped = {}
  /\ again = FALSE

\* the frame a scan of list meets first with its evictable flag set: from the
\* back (rbegin() to rend()) in the code, from the front in the mutant
EvictableAt(list) == {i \in 1..Len(list) : is_evictable_[list[i]]}
ScanFront(list) == list[Min(EvictableAt(list))]
ScanBack(list) == list[Max(EvictableAt(list))]

\* the body of either loop of Evict once frame is found evictable; the mutant
\* forgets access_count_.erase(frame)
EvictDropKeepsCount(frame) ==
  /\ is_evictable_' = [is_evictable_ EXCEPT ![frame] = FALSE]
  /\ access_count_' = access_count_
  /\ curr_size_' = curr_size_ - 1
  /\ last' = Ret("Evict", "true", frame, 0)
EvictDrop(frame) ==
  /\ is_evictable_' = [is_evictable_ EXCEPT ![frame] = FALSE]
  /\ access_count_' = [access_count_ EXCEPT ![frame] = 0]
  /\ curr_size_' = curr_size_ - 1
  /\ last' = Ret("Evict", "true", frame, 0)

\* return false, at line 21 and at line 48: nothing is written; the mutant
\* answers true
EvictNoneTrue ==
  /\ last' = Ret("Evict", "true", NoFrame, 0)
  /\ UNCHANGED <<access_count_, is_evictable_, history_list_, history_hash_,
                 lru_k_list_, lru_k_hash_, curr_size_, crashed>>
EvictNone ==
  /\ last' = Ret("Evict", "false", NoFrame, 0)
  /\ UNCHANGED <<access_count_, is_evictable_, history_list_, history_hash_,
                 lru_k_list_, lru_k_hash_, curr_size_, crashed>>

Evict ==
  /\ ~crashed
  /\ UNCHANGED <<replacer_size_, k_, clock>>
  /\ IF curr_size_ = 0
     THEN EvictNone
     ELSE IF EvictableAt(history_list_) # {}
     THEN LET frame == ScanBack(history_list_) IN
          \E o \in ListErase(history_list_, history_hash_, frame) :
            IF o.crash
            THEN /\ crashed' = TRUE
                 /\ last' = Ret("Evict", "crash", frame, 0)
                 /\ UNCHANGED <<access_count_, is_evictable_, history_list_,
                                history_hash_, lru_k_list_, lru_k_hash_,
                                curr_size_>>
            ELSE /\ history_list_' = o.list
                 /\ history_hash_' = history_hash_ \ {frame}
                 /\ EvictDrop(frame)
                 /\ UNCHANGED <<lru_k_list_, lru_k_hash_, crashed>>
     ELSE IF EvictableAt(lru_k_list_) # {}
     THEN LET frame == ScanBack(lru_k_list_) IN
          \E o \in ListErase(lru_k_list_, lru_k_hash_, frame) :
            IF o.crash
            THEN /\ crashed' = TRUE
                 /\ last' = Ret("Evict", "crash", frame, 0)
                 /\ UNCHANGED <<access_count_, is_evictable_, history_list_,
                                history_hash_, lru_k_list_, lru_k_hash_,
                                curr_size_>>
            ELSE /\ lru_k_list_' = o.list
                 /\ lru_k_hash_' = lru_k_hash_ \ {frame}
                 /\ EvictDrop(frame)
                 /\ UNCHANGED <<history_list_, history_hash_, crashed>>
     ELSE EvictNone

\* the range test of RecordAccess and SetEvictable
OutOfRange(f) == f > replacer_size_

\* the last branch of RecordAccess: erase f's node if lru_k_hash_ has one,
\* then push f to the front; the mutant leaves a frame that has a node where
\* it is
MoveToFrontIfNew(list, hash, f) ==
  IF f \in hash THEN list ELSE PushFront(list, f)
MoveToFront(list, hash, f) ==
  PushFront(IF f \in hash THEN EraseElem(list, f) ELSE list, f)

RecordAccess(f) ==
  /\ ~crashed
  /\ UNCHANGED <<replacer_size_, k_, is_evictable_, curr_size_>>
  /\ IF OutOfRange(f)
     THEN /\ last' = Ret("RecordAccess", "throw", NoFrame, 0)
          /\ UNCHANGED <<access_count_, history_list_, history_hash_,
                         lru_k_list_, lru_k_hash_, crashed>>
     ELSE
       LET cnt == access_count_[f] + 1 IN
       /\ access_count_' = [access_count_ EXCEPT ![f] = cnt]
       /\ IF cnt < k_
          THEN /\ IF f \notin history_hash_
                  THEN /\ history_list_' = PushFront(history_list_, f)
                       /\ history_hash_' = history_hash_ \cup {f}
                  ELSE UNCHANGED <<history_list_, history_hash_>>
               /\ last' = Ret("RecordAccess", "ok", NoFrame, 0)
               /\ UNCHANGED <<lru_k_list_, lru_k_hash_, crashed>>
          ELSE IF cnt = k_
          THEN \E o \in ListErase(history_list_, history_hash_, f) :
                 IF o.crash
                 THEN /\ crashed' = TRUE
                      /\ last' = Ret("RecordAccess", "crash", NoFrame, 0)
                      /\ UNCHANGED <<history_list_, history_hash_,
                                     lru_k_list_, lru_k_hash_>>
                 ELSE /\ history_list_' = o.list
                      /\ history_hash_' = history_hash_ \ {f}
                      /\ lru_k_list_' = PushFront(lru_k_list_, f)
                      /\ lru_k_hash_' = lru_k_hash_ \cup {f}
                      /\ last' = Ret("RecordAccess", "ok", NoFrame, 0)
                      /\ UNCHANGED crashed
          ELSE /\ lru_k_list_' = MoveToFront(lru_k_list_, lru_k_hash_, f)
               /\ lru_k_hash_' = lru_k_hash_ \cup {f}
               /\ last' = Ret("RecordAccess", "ok", NoFrame, 0)
               /\ UNCHANGED <<history_list_, history_hash_, crashed>>

\* curr_size_ after the two tests of SetEvictable; the mutant counts by the
\* requested flag alone
SizeAfterSetByFlag(f, set_evictable) ==
  IF set_evictable THEN curr_size_ + 1 ELSE curr_size_ - 1
SizeAfterSet(f, set_evictable) ==
  IF is_evictable_[f] /\ ~set_evictable THEN curr_size_ - 1
  ELSE IF ~is_evictable_[f] /\ set_evictable THEN curr_size_ + 1
  ELSE curr_size_

SetEvictable(f, set_evictable) ==
  /\ ~crashed
  /\ UNCHANGED <<replacer_size_, k_, access_count_, history_list_,
                 history_hash_, lru_k_list_, lru_k_hash_, crashed, clock>>
  /\ IF OutOfRange(f)
     THEN /\ last' = Ret("SetEvictable", "throw", NoFrame, 0)
          /\ UNCHANGED <<is_evictable_, curr_size_>>
     ELSE IF access_count_[f] = 0
     THEN /\ last' = Ret("SetEvictable", "ok", NoFrame, 0)
          /\ UNCHANGED <<is_evictable_, curr_size_>>
     ELSE /\ curr_size_' = SizeAfterSet(f, set_evictable)
          /\ is_evictable_' = [is_evictable_ EXCEPT ![f] = set_evictable]
          /\ last' = Ret("SetEvictable", "ok", NoFrame, 0)

\* the test that makes Remove throw; the mutant keeps the range test only
RemoveThrowsOnRange(f) == f > replacer_size_
RemoveThrows(f) == ~is_evictable_[f] \/ f > replacer_size_

\* lines 101-110: unlink the frame, count it out, clear its flag and count
RemoveErase(f) ==
  \E o \in IF f \in history_hash_
            THEN ListErase(history_list_, history_hash_, f)
            ELSE ListErase(lru_k_list_, lru_k_hash_, f) :
    IF o.crash
    THEN /\ crashed' = TRUE
         /\ last' = Ret("Remove", "crash", NoFrame, 0)
         /\ UNCHANGED <<access_count_, is_evictable_, history_list_,
                        history_hash_, lru_k_list_, lru_k_hash_,
                        curr_size_>>
    ELSE /\ IF f \in history_hash_
            THEN /\ history_list_' = o.list
                 /\ history_hash_' = history_hash_ \ {f}
                 /\ UNCHANGED <<lru_k_list_, lru_k_hash_>>
            ELSE /\ lru_k_list_' = o.list
                 /\ lru_k_hash_' = lru_k_hash_ \ {f}
                 /\ UNCHANGED <<history_list_, history_hash_>>
         /\ curr_size_' = curr_size_ - 1
         /\ is_evictable_' = [is_evictable_ EXCEPT ![f] = FALSE]
         /\ access_count_' = [access_count_ EXCEPT ![f] = 0]
         /\ last' = Ret("Remove", "removed", NoFrame, 0)
         /\ UNCHANGED crashed

Remove(f) ==
  /\ ~crashed
  /\ UNCHANGED <<replacer_size_, k_, clock>>
  /\ IF access_count_[f] = 0
     THEN /\ last' = Ret("Remove", "ok", NoFrame, 0)
          /\ UNCHANGED <<access_count_, is_evictable_, history_list_,
                         history_hash_, lru_k_list_, lru_k_hash_, curr_size_,
                         crashed>>
     ELSE IF RemoveThrows(f)
     THEN /\ last' = Ret("Remove", "throw", NoFrame, 0)
          /\ UNCHANGED <<access_count_, is_evictable_, history_list_,
                         history_hash_, lru_k_list_, lru_k_hash_, curr_size_,
                         crashed>>
     ELSE RemoveErase(f)

Size ==
  /\ ~crashed
  /\ last' = Ret("Size", "ok", NoFrame, curr_size_)
  /\ UNCHANGED <<replacer_size_, k_, access_count_, is_evictable_,
                 history_list_, history_hash_, lru_k_list_, lru_k_hash_,
                 curr_size_, crashed, clock>>

\* ------------------------------------------------- LRUKReplacer histories
\* the frames a step has accessed or dropped, read from the call and its
\* result: an accepted RecordAccess(f), an Evict that returned a frame, a
\* Remove(f) that went through
\* an accepted RecordAccess is counted, up to MaxClock accesses
Tick(f) ==
  IF OutOfRange(f) THEN UNCHANGED clock
  ELSE clock < MaxClock /\ clock' = clock + 1
Accessed(f) == IF clock' # clock THEN {f} ELSE {}
Evicted == IF last'.res = "true" THEN {last'.frame} ELSE {}
Removed(f) == IF last'.res = "removed" THEN {f} ELSE {}

\* the log of the accesses that count: an accepted access is appended, a
\* frame's accesses beyond its K most recent are struck (its backward
\* K-distance does not depend on them) and so are those of a dropped frame
Occurrences(log, f) == {i \in 1..Len(log) : log[i] = f}
StrikeFirst(log, f) ==
  LET i == Min(Occurrences(log, f)) IN
  SubSeq(log, 1, i - 1) \o SubSeq(log, i + 1, Len(log))
Logged(log, f) ==
  IF Cardinality(Occurrences(log, f)) >= k_
  THEN Append(StrikeFirst(log, f), f)
  ELSE Append(log, f)
Log(acc, drp) ==
  accesses' =
    IF acc # {} THEN Logged(accesses, CHOOSE f \in acc : TRUE)
    ELSE IF drp # {} THEN SelectSeq(accesses, LAMBDA g : g \notin drp)
    ELSE accesses

\* the frames dropped and not accessed since
Drops(acc, drp) ==
  /\ dropped' = (dropped \ acc) \cup drp
  /\ again' = (acc \cap dropped # {})

\* ------------------------------------------------ ExtendibleHashTable state
VARIABLES
  global_depth_,   \* int global_depth_
  bucket_size_,    \* size_t bucket_size_
  num_buckets_,    \* int num_buckets_
  dir_,            \* std::vector<std::shared_ptr<Bucket>>; slot i is dir_[i + 1]
  heap,            \* the buckets some slot points to: pointer -> [depth, list];
                   \* a pointer's value cannot be observed, and a bucket is
                   \* named by the lowest slot that points to it
  hpc,             \* "idle", or "insert" inside Insert's while loop
  ins_key, ins_val,\* the arguments of the Insert call under way (0 outside one)
  iters,           \* history variable: iterations of the while loop in the
                   \* call under way
  hlast,           \* the last call that returned and its result
  stored           \* history variable: key -> the value of its last Insert
                   \* not followed by a Remove that found it, else NoVal

hvars == <<global_depth_, bucket_size_, num_buckets_, dir_, heap, hpc, ins_key,
           ins_val, iters, hlast, stored>>

Keys == {k \in 0..MaxKey : k < 2 ^ HashBits}
Vals == 1..MaxVal
NoVal == 0
\* the names of the two buckets a split makes, until the directory is rewired
New0 == 0
New1 == 0 - 1

\* std::hash<int> is the identity
Hash(key) == key
\* (h & mask) != 0 for mask = 1 << d
BitSet(h, d) == (h \div (2 ^ d)) % 2 = 1

IndexOf(key) == Hash(key) % (2 ^ global_depth_)
\* the bucket dir_[IndexOf(key)] points to
Target(key) == dir_[IndexOf(key) + 1]

Bucket(depth) == [depth |-> depth, list |-> <<>>]
IsFull(b) == Len(b.list) = bucket_size_
HasKey(b, key) == \E i \in 1..Len(b.list) : b.list[i][1] = key

\* Bucket::Insert: refuses when full, overwrites a present key, else appends
\* (the mutant always refuses)
BucketInsertRefuses(b, key, value) == b
BucketInsert(b, key, value) ==
  IF IsFull(b) THEN b
  ELSE IF HasKey(b, key)
  THEN [b EXCEPT !.list = [i \in 1..Len(b.list) |->
                             IF b.list[i][1] = key THEN <<key, value>>
                             ELSE b.list[i]]]
  ELSE [b EXCEPT !.list = Append(b.list, <<key, value>>)]

\* Bucket::Find: the value of the first entry with the key
BucketFind(b, key) ==
  IF HasKey(b, key)
  THEN [found |-> TRUE,
        value |-> b.list[Min({i \in 1..Len(b.list) : b.list[i][1] = key})][2]]
  ELSE [found |-> FALSE, value |-> NoVal]

\* Bucket::Remove: list_.remove(it) for the first entry with the key erases
\* every entry equal to it; the mutant empties the bucket
BucketRemoveAll(b, key) ==
  IF HasKey(b, key) THEN [b EXCEPT !.list = <<>>] ELSE b
BucketRemove(b, key) ==
  LET it == <<key, BucketFind(b, key).value>> IN
  [b EXCEPT !.list = SelectSeq(b.list, LAMBDA e : e # it)]

Find(key) == BucketFind(heap[Target(key)], key)

HInit ==
  /\ global_depth_ = 0
  /\ bucket_size_ \in 1..MaxBucketSize
  /\ num_buckets_ = 1
  /\ dir_ = <<1>>
  /\ heap = [p \in {1} |-> Bucket(0)]
  /\ hpc = "idle"
  /\ ins_key = 0
  /\ ins_val = NoVal
  /\ iters = 0
  /\ hlast = [op |-> "new", res |-> "ok"]
  /\ stored = [k \in Keys |-> NoVal]

HRemove(key) ==
  /\ hpc = "idle"
  /\ heap' = [heap EXCEPT ![Target(key)] = BucketRemove(@, key)]
  /\ hlast' = [op |-> "Remove",
               res |-> IF Find(key).found THEN "true" ELSE "false"]
  /\ stored' = IF Find(key).found THEN [stored EXCEPT ![key] = NoVal]
               ELSE stored
  /\ UNCHANGED <<global_depth_, bucket_size_, num_buckets_, dir_, hpc,
                 ins_key, ins_val, iters>>

\* lines 126-132 of Insert: overwrite the key's entry or insert a new one,
\* and return
Store(key, value) ==
  /\ heap' = [heap EXCEPT ![Target(key)] = BucketInsert(@, key, value)]
  /\ hpc' = "idle"
  /\ hlast' = [op |-> "Insert", res |-> "ok"]
  /\ stored' = [stored EXCEPT ![key] = value]
  /\ ins_key' = 0
  /\ ins_val' = NoVal
  /\ iters' = 0
  /\ UNCHANGED <<global_depth_, bucket_size_, num_buckets_, dir_>>

\* Insert is called: with the target bucket full the while loop is entered,
\* else the call runs to its end
Insert(key, value) ==
  /\ hpc = "idle"
  /\ IF IsFull(heap[Target(key)])
     THEN /\ hpc' = "insert"
          /\ ins_key' = key
          /\ ins_val' = value
          /\ iters' = 0
          /\ UNCHANGED <<global_depth_, bucket_size_, num_buckets_, dir_, heap,
                         hlast, stored>>
     ELSE Store(key, value)

\* the for loop that sends origin's entries to split_bucket1 or split_bucket0
\* (the mutant tests the bit the wrong way round)
RedistributeSwapped(items, d, b0, b1) ==
  <<[b0 EXCEPT !.list = SelectSeq(items, LAMBDA it : BitSet(Hash(it[1]), d))],
    [b1 EXCEPT !.list = SelectSeq(items, LAMBDA it : ~BitSet(Hash(it[1]), d))]>>
\* (the mutant forgets the entries whose bit is set)
RedistributeZeros(items, d, b0, b1) ==
  <<[b0 EXCEPT !.list = SelectSeq(items, LAMBDA it : ~BitSet(Hash(it[1]), d))],
    b1>>
RECURSIVE Redistribute(_, _, _, _)
Redistribute(items, d, b0, b1) ==
  IF items = <<>> THEN <<b0, b1>>
  ELSE LET it == Head(items) IN
       IF BitSet(Hash(it[1]), d)
       THEN Redistribute(Tail(items), d, b0, BucketInsert(b1, it[1], it[2]))
       ELSE Redistribute(Tail(items), d, BucketInsert(b0, it[1], it[2]), b1)

\* the for loop that points origin's slots to the two new buckets; the mutant
\* tests the bit the wrong way round
RewireToOne(dir, origin, d, p0, p1) ==
  [i \in 1..Len(dir) |-> IF dir[i] = origin THEN p0 ELSE dir[i]]
RewireSwapped(dir, origin, d, p0, p1) ==
  [i \in 1..Len(dir) |->
     IF dir[i] = origin
     THEN IF BitSet(i - 1, d) THEN p0 ELSE p1
     ELSE dir[i]]
Rewire(dir, origin, d, p0, p1) ==
  [i \in 1..Len(dir) |->
     IF dir[i] = origin
     THEN IF BitSet(i - 1, d) THEN p1 ELSE p0
     ELSE dir[i]]

\* the depth of split_bucket0 and split_bucket1: origin's depth + 1; the
\* mutant keeps origin's depth
SplitDepthSame(d) == d
SplitDepth(d) == d + 1

\* the name of the bucket p: the lowest slot of dir that points to it
NameOf(dir, p) == Min({i \in 1..Len(dir) : dir[i] = p})

\* one iteration of Insert's while loop. Past the hash width the shift and
\* the doubling of the directory have no model: the call hangs there.
SplitStep ==
  /\ hpc = "insert"
  /\ IsFull(heap[Target(ins_key)])
  /\ heap[Target(ins_key)].depth < HashBits
  /\ LET origin == Target(ins_key)
         d == heap[origin].depth
         grown == IF d = global_depth_ THEN dir_ \o dir_ ELSE dir_
         split == Redistribute(heap[origin].list, d,
                               Bucket(SplitDepth(d)), Bucket(SplitDepth(d)))
         wired == Rewire(grown, origin, d, New0, New1)
         all == [p \in DOMAIN heap \cup {New0, New1} |->
                   IF p = New0 THEN split[1]
                   ELSE IF p = New1 THEN split[2]
                   ELSE heap[p]]
         live == {wired[i] : i \in 1..Len(wired)}
     IN /\ global_depth_' = IF d = global_depth_ THEN global_depth_ + 1
                            ELSE global_depth_
        /\ dir_' = [i \in 1..Len(wired) |-> NameOf(wired, wired[i])]
        /\ heap' = [q \in {NameOf(wired, p) : p \in live} |->
                      all[CHOOSE p \in live : NameOf(wired, p) = q]]
        /\ num_buckets_' = num_buckets_ + 1
  /\ iters' = iters + 1
  /\ UNCHANGED <<bucket_size_, hpc, ins_key, ins_val, hlast, stored>>

\* the while loop is left after some iterations
InsertFinish ==
  /\ hpc = "insert"
  /\ ~IsFull(heap[Target(ins_key)])
  /\ Store(ins_key, ins_val)

\* ------------------------------------------------- LRUKReplacer with threads
VARIABLES
  latch_,          \* std::mutex latch_: the thread that holds it, or NoThread
  tpc,             \* where each thread is: "idle", "locked" (inside a
                   \* scoped_lock, before the body) or "remove" (in Remove,
                   \* past its two tests)
  targ             \* the frame_id of the Remove call a thread is in

cvars == <<latch_, tpc, targ>>

Threads == 1..NumThreads
NoThread == NumThreads + 1

CInit ==
  /\ latch_ = NoThread
  /\ tpc = [t \in Threads |-> "idle"]
  /\ targ = [t \in Threads |-> NoFrame]

\* std::scoped_lock<std::mutex> lock(latch_) on entry of Evict, RecordAccess,
\* SetEvictable and Size: the thread waits until the mutex is free
Lock(t) ==
  /\ ~crashed
  /\ tpc[t] = "idle"
  /\ latch_ = NoThread
  /\ latch_' = t
  /\ tpc' = [tpc EXCEPT ![t] = "locked"]
  /\ UNCHANGED <<rvars, targ>>

\* the end of a locked call: the scoped_lock's destructor frees the mutex on
\* every way out of the body, a throw included
Unlock(t) ==
  /\ tpc[t] = "locked"
  /\ latch_ = t
  /\ latch_' = NoThread
  /\ tpc' = [tpc EXCEPT ![t] = "idle"]
  /\ UNCHANGED targ

\* Remove, lines 94-100: no lock is taken; the two tests read the maps
RemoveTests(t, f) ==
  /\ ~crashed
  /\ tpc[t] = "idle"
  /\ UNCHANGED <<replacer_size_, k_, access_count_, is_evictable_,
                 history_list_, history_hash_, lru_k_list_, lru_k_hash_,
                 curr_size_, crashed, clock, latch_>>
  /\ IF access_count_[f] = 0
     THEN /\ last' = Ret("Remove", "ok", NoFrame, 0)
          /\ UNCHANGED <<tpc, targ>>
     ELSE IF RemoveThrows(f)
     THEN /\ last' = Ret("Remove", "throw", NoFrame, 0)
          /\ UNCHANGED <<tpc, targ>>
     ELSE /\ tpc' = [tpc EXCEPT ![t] = "remove"]
          /\ targ' = [targ EXCEPT ![t] = f]
          /\ UNCHANGED last

\* Remove, lines 101-110, still without the lock
RemoveRest(t) ==
  /\ ~crashed
  /\ tpc[t] = "remove"
  /\ RemoveErase(targ[t])
  /\ tpc' = [tpc EXCEPT ![t] = "idle"]
  /\ targ' = [targ EXCEPT ![t] = NoFrame]
  /\ UNCHANGED <<replacer_size_, k_, clock, latch_>>

\* ------------------------------------------------- LRUKReplacer, one scenario
VARIABLES
  step             \* how many calls of the scenario have returned, the calls
                   \* that mark a frame evictable not counted

svars == <<step>>
SInit == step = 0

\* the frames the scenario's caller hands in
FirstAccesses == <<1, 2, 3, 4, 5, 6>>
MoreAccesses == <<1, 2, 3, 4, 5, 6, 1, 2, 3, 1, 2, 1, 1, 1, 1, 1>>
Marked == Elems(FirstAccesses)
\* the steps at which the three Evict calls and the SetEvictable(1, false)
\* call are made
FirstEvictAt == Len(FirstAccesses)
UnmarkAt == FirstEvictAt + 1 + Len(MoreAccesses)
LastEvictsAt == {UnmarkAt + 1, UnmarkAt + 2}

\* -------------------------------------------------------------- specifications
vars == <<rvars, hvars, cvars, svars>>

\* the replacer with one caller, with the history of drops; the hash table
\* stays as constructed
Init == RInit /\ HInit /\ bucket_size_ = 1 /\ CInit /\ SInit
Next ==
  \/ Evict /\ Drops({}, Evicted) /\ UNCHANGED <<accesses, hvars, cvars, svars>>
  \/ \E f \in FrameIds :
       /\ RecordAccess(f) /\ Tick(f) /\ Drops(Accessed(f), {})
       /\ UNCHANGED <<accesses, hvars, cvars, svars>>
  \/ \E f \in FrameIds, b \in BOOLEAN :
       /\ SetEvictable(f, b) /\ Drops({}, {})
       /\ UNCHANGED <<accesses, hvars, cvars, svars>>
  \/ \E f \in FrameIds :
       /\ Remove(f) /\ Drops({}, Removed(f))
       /\ UNCHANGED <<accesses, hvars, cvars, svars>>
  \/ Size /\ Drops({}, {}) /\ UNCHANGED <<accesses, hvars, cvars, svars>>
Spec == Init /\ [][Next]_vars

\* the replacer with one caller, with the history of access times
NextTimes ==
  \/ Evict /\ Log({}, Evicted) /\ UNCHANGED <<dropped, again, hvars, cvars, svars>>
  \/ \E f \in FrameIds :
       /\ RecordAccess(f) /\ Tick(f) /\ Log(Accessed(f), {})
       /\ UNCHANGED <<dropped, again, hvars, cvars, svars>>
  \/ \E f \in FrameIds, b \in BOOLEAN :
       /\ SetEvictable(f, b)
       /\ UNCHANGED <<accesses, dropped, again, hvars, cvars, svars>>
  \/ \E f \in FrameIds :
       /\ Remove(f) /\ Log({}, Removed(f))
       /\ UNCHANGED <<dropped, again, hvars, cvars, svars>>
  \/ Size /\ UNCHANGED <<accesses, dropped, again, hvars, cvars, svars>>
SpecTimes == Init /\ [][NextTimes]_vars

\* the hash table with one caller; the replacer stays as constructed
InitHash == HInit /\ RInit /\ k_ = 1 /\ CInit /\ SInit
NextHash ==
  \/ \E key \in Keys, value \in Vals :
       Insert(key, value) /\ UNCHANGED <<rvars, cvars, svars>>
  \/ SplitStep /\ UNCHANGED <<rvars, cvars, svars>>
  \/ InsertFinish /\ UNCHANGED <<rvars, cvars, svars>>
  \/ \E key \in Keys : HRemove(key) /\ UNCHANGED <<rvars, cvars, svars>>
SpecHash == InitHash /\ [][NextHash]_vars

\* the replacer with NumThreads callers and K = 2: the four locked calls run
\* their bodies while they hold the mutex, Remove runs without it
InitConc == RInit /\ k_ = 2 /\ HInit /\ bucket_size_ = 1 /\ CInit /\ SInit
NextConc ==
  \E t \in Threads :
    \/ Lock(t) /\ UNCHANGED <<hvars, svars>>
    \/ Unlock(t) /\ Evict /\ UNCHANGED <<accesses, dropped, again, hvars, svars>>
    \/ \E f \in FrameIds :
         /\ Unlock(t) /\ RecordAccess(f) /\ Tick(f)
         /\ UNCHANGED <<accesses, dropped, again, hvars, svars>>
    \/ \E f \in FrameIds, b \in BOOLEAN :
         /\ Unlock(t) /\ SetEvictable(f, b)
         /\ UNCHANGED <<accesses, dropped, again, hvars, svars>>
    \/ Unlock(t) /\ Size /\ UNCHANGED <<accesses, dropped, again, hvars, svars>>
    \/ \E f \in FrameIds :
         /\ RemoveTests(t, f)
         /\ UNCHANGED <<accesses, dropped, again, hvars, svars>>
    \/ RemoveRest(t) /\ UNCHANGED <<accesses, dropped, again, hvars, svars>>
SpecConc == InitConc /\ [][NextConc]_vars

\* the replacer of the scenario: LRUKReplacer(7, 2), and one caller that
\* records the first accesses in their order, marks each of their frames
\* evictable at some point after its access, calls Evict, records the other
\* accesses in their order, marks frame 1 not evictable and calls Evict twice
InitScenario ==
  /\ replacer_size_ = 7
  /\ k_ = 2
  /\ access_count_ = [f \in 0..7 |-> 0]
  /\ is_evictable_ = [f \in 0..7 |-> FALSE]
  /\ history_list_ = <<>> /\ history_hash_ = {}
  /\ lru_k_list_ = <<>> /\ lru_k_hash_ = {}
  /\ curr_size_ = 0
  /\ crashed = FALSE
  /\ last = Ret("new", "ok", NoFrame, 0)
  /\ clock = 0 /\ accesses = <<>> /\ dropped = {} /\ again = FALSE
  /\ HInit /\ bucket_size_ = 1 /\ CInit /\ SInit
NextScenario ==
  \/ /\ step < FirstEvictAt
     /\ RecordAccess(FirstAccesses[step + 1])
     /\ step' = step + 1
     /\ UNCHANGED <<clock, accesses, dropped, again, hvars, cvars>>
  \/ \E f \in Marked :
       /\ step <= FirstEvictAt
       /\ access_count_[f] > 0 /\ ~is_evictable_[f]
       /\ SetEvictable(f, TRUE)
       /\ UNCHANGED <<step, accesses, dropped, again, hvars, cvars>>
  \/ /\ step = FirstEvictAt
     /\ \A f \in Marked : is_evictable_[f]
     /\ Evict
     /\ step' = step + 1
     /\ UNCHANGED <<accesses, dropped, again, hvars, cvars>>
  \/ /\ step > FirstEvictAt /\ step < UnmarkAt
     /\ RecordAccess(MoreAccesses[step - FirstEvictAt])
     /\ step' = step + 1
     /\ UNCHANGED <<clock, accesses, dropped, again, hvars, cvars>>
  \/ /\ step = UnmarkAt
     /\ SetEvictable(1, FALSE)
     /\ step' = step + 1
     /\ UNCHANGED <<accesses, dropped, again, hvars, cvars>>
  \/ /\ step \in LastEvictsAt
     /\ Evict
     /\ step' = step + 1
     /\ UNCHANGED <<accesses, dropped, again, hvars, cvars>>
SpecScenario == InitScenario /\ [][NextScenario]_vars

\* ------------------------------------------------------ LRUKReplacer claims
\* the replacer's own state, without the call record and the history variables
rstate == <<access_count_, is_evictable_, history_list_, history_hash_,
            lru_k_list_, lru_k_hash_, curr_size_>>

\* the known frames whose evictable flag is set
Evictable == {f \in FrameIds : access_count_[f] > 0 /\ is_evictable_[f]}
\* by the log of accesses: evictable frames with fewer than K accesses and
\* with K or more, the place of a frame's first access and of its K-th most
\* recent access in the order of all accesses
Accesses(f) == Occurrences(accesses, f)
FewCands == {f \in Evictable : Cardinality(Accesses(f)) < k_}
KCands == {f \in Evictable : Cardinality(Accesses(f)) >= k_}
FirstAccess(f) == Min(Accesses(f))
KthRecent(f) ==
  CHOOSE i \in Accesses(f) : Cardinality({j \in Accesses(f) : j >= i}) = k_

\* C1: whenever an evictable frame has fewer than K accesses, Evict returns
\* the evictable frame with fewer than K accesses whose first access is the
\* earliest, whatever frames with K or more accesses are evictable and
\* whatever later accesses the frames with fewer than K accesses had.
C1_EvictPrefersEarliestHistory ==
  [][(last'.op = "Evict" /\ FewCands # {} /\ Evict) =>
       /\ last'.res = "true"
       /\ last'.frame \in FewCands
       /\ \A g \in FewCands : FirstAccess(last'.frame) <= FirstAccess(g)]_rvars

\* Evict has returned a frame with fewer than K accesses while a frame with K
\* accesses and a later frame with fewer than K accesses were evictable too
C1_Witness ==
  /\ last.op = "Evict" /\ last.res = "true"
  /\ KCands # {}
  /\ FewCands # {}

\* C2: when no evictable frame has fewer than K accesses and some evictable
\* frame has K or more, Evict returns the evictable frame whose K-th most
\* recent access is the oldest.
C2_EvictOldestKthAccess ==
  [][(last'.op = "Evict" /\ FewCands = {} /\ KCands # {} /\ Evict) =>
       /\ last'.res = "true"
       /\ last'.frame \in KCands
       /\ \A g \in KCands : KthRecent(last'.frame) <= KthRecent(g)]_rvars

\* C3: after any sequence of calls curr_size_, and with it what Size()
\* returns, is the number of known frames whose evictable flag is set (so
\* every call moves the count exactly as it moves that number: SetEvictable
\* by +1 on false->true and -1 on true->false, Evict and Remove by -1 when
\* they drop a frame, RecordAccess not at all).
C3_SizeCountsEvictable ==
  /\ curr_size_ = Cardinality(Evictable)
  /\ last.op = "Size" => last.n = Cardinality(Evictable)

\* Size() has answered 1 after a frame was dropped, with a known frame that is
\* not evictable beside the one that is
C3_Witness ==
  /\ last.op = "Size" /\ last.n = 1
  /\ dropped # {}
  /\ \E f \in FrameIds : access_count_[f] > 0 /\ ~is_evictable_[f]

\* C5: RecordAccess(f) and SetEvictable(f, flag) throw for every f outside
\* [0, capacity), f = capacity included, and a throwing call changes nothing.
C5_OutOfRangeThrows ==
  [][last'.op \in {"RecordAccess", "SetEvictable"} =>
       \A f \in FrameIds \ (0..(replacer_size_ - 1)) :
         (RecordAccess(f) \/ \E b \in BOOLEAN : SetEvictable(f, b)) =>
           /\ last'.res = "throw"
           /\ UNCHANGED rstate]_rvars

\* the step leaves nothing of frame f in the replacer
Cleared(f) ==
  /\ access_count_'[f] = 0 /\ ~is_evictable_'[f]
  /\ f \notin Elems(history_list_') \cup Elems(lru_k_list_')
  /\ f \notin history_hash_' \cup lru_k_hash_'

\* C9: Evict returning f and a successful Remove(f) clear f's history: f is
\* unknown and not evictable, stays so until its next RecordAccess, which
\* gives it the count 1 (and, for K > 1, a place in the history queue and
\* none in the K-queue), and only SetEvictable(f, true) makes f evictable.
C9_DropClearsHistory ==
  [][/\ (last'.op = "Evict" /\ last'.res = "true") => Cleared(last'.frame)
     /\ (last'.op = "Remove" /\ last'.res = "removed") =>
          \A f \in FrameIds : Remove(f) => Cleared(f)
     /\ \A f \in FrameIds :
          /\ access_count_[f] = 0 =>
               \/ access_count_'[f] = 0 /\ ~is_evictable_'[f]
               \/ /\ last'.op = "RecordAccess" /\ RecordAccess(f)
                  /\ last'.res = "ok" =>
                       /\ access_count_'[f] = 1 /\ ~is_evictable_'[f]
                       /\ k_ > 1 => /\ f \in Elems(history_list_')
                                    /\ f \notin Elems(lru_k_list_')
          /\ (~is_evictable_[f] /\ is_evictable_'[f]) =>
               SetEvictable(f, TRUE)]_rvars

\* a frame that was dropped has been accessed again: it is at the front of
\* the history queue with the count 1, not evictable
C9_Witness ==
  /\ last.op = "RecordAccess" /\ last.res = "ok" /\ again
  /\ k_ > 1
  /\ history_list_ # <<>>
  /\ access_count_[Head(history_list_)] = 1
  /\ ~is_evictable_[Head(history_list_)]

\* C10: Remove(f) on a known frame whose evictable flag is false throws and
\* changes nothing; Remove(f) on an unknown frame returns and changes nothing.
C10_RemoveRefusals ==
  [][last'.op = "Remove" =>
       \A f \in FrameIds :
         Remove(f) =>
           /\ (access_count_[f] > 0 /\ ~is_evictable_[f]) =>
                last'.res = "throw" /\ UNCHANGED rstate
           /\ access_count_[f] = 0 =>
                last'.res = "ok" /\ UNCHANGED rstate]_rvars

\* Remove has thrown with a known frame that is not evictable, and has
\* returned quietly with an unknown frame
C10_Witness ==
  /\ last.op = "Remove" /\ last.res = "throw"
  /\ \E f \in FrameIds : access_count_[f] > 0 /\ ~is_evictable_[f]

\* C11: Evict called when no known frame is evictable (the replacer empty or
\* every known frame not evictable) returns false and leaves the counts, the
\* flags, both queues and the size as they were.
C11_EvictNothingEvictable ==
  [][(last'.op = "Evict" /\ Evictable = {} /\ Evict) =>
       last'.res = "false" /\ UNCHANGED rstate]_rvars

\* Evict has answered false with frames in both queues, none evictable
C11_Witness ==
  /\ last.op = "Evict" /\ last.res = "false"
  /\ history_list_ # <<>> /\ lru_k_list_ # <<>>
  /\ Evictable = {}

\* the place of a frame's latest access in the order of all accesses
LatestAccess(f) == Max(Accesses(f))

Victim(at, f) ==
  step = at => last.op = "Evict" /\ last.res = "true" /\ last.frame = f

\* C19 as stated: with K = 2 and capacity 7, after the accesses 1..6, the
\* marking of frames 1..6 as evictable, an Evict that returns 1, the accesses
\* 1,2,3,4,5,6,1,2,3,1,2,1,1,1,1,1 and the marking of frame 1 as not
\* evictable, the next two Evict calls return 3 and then 4.
C19_ScenarioAsStated ==
  /\ Victim(FirstEvictAt + 1, 1)
  /\ Victim(UnmarkAt + 2, 3)
  /\ Victim(UnmarkAt + 3, 4)

\* C19 as amended: in that scenario the first Evict returns 1 and the last
\* two Evict calls return 4 and then 5.
C19_ScenarioVictims ==
  /\ Victim(FirstEvictAt + 1, 1)
  /\ Victim(UnmarkAt + 2, 4)
  /\ Victim(UnmarkAt + 3, 5)

\* the scenario has run to its end: the last Evict has returned, frames 1, 4
\* and 5 are not evictable and frames 2, 3 and 6 are left in the K-queue
C19_Witness ==
  /\ step = UnmarkAt + 3
  /\ last.op = "Evict"
  /\ lru_k_list_ = <<1, 2, 3, 6>>
  /\ curr_size_ = 3

\* the frames of the history queue and of the K-queue
InH == Elems(history_list_)
InK == Elems(lru_k_list_)
Membership(f) ==
  /\ access_count_[f] > 0 => (f \in InH) # (f \in InK)
  /\ f \in InH <=> (1 <= access_count_[f] /\ access_count_[f] < k_)
  /\ access_count_[f] = 0 => f \notin InH \cup InK

\* C17: for every K >= 1, K = 1 included, every frame with a count above 0
\* is in exactly one of the history queue and the K-queue, a frame is in the
\* history queue iff its count is in [1, K), and a frame with count 0 is in
\* neither queue.
C17_QueueMembership == \A f \in FrameIds : Membership(f)
\* the same for K >= 2 alone
MembershipFromTwo == k_ >= 2 => \A f \in FrameIds : Membership(f)

\* C4: with threads calling RecordAccess, SetEvictable, Evict, Remove and Size
\* on one replacer every call holds the mutex for all its reads and writes, so
\* each execution equals a sequential order of the calls: a Remove past its
\* tests still finds the frame known and evictable (no frame is dropped
\* twice), and size counts the evictable frames.
C4_CallsAreSerialised ==
  /\ \A t \in Threads :
       tpc[t] = "remove" =>
         access_count_[targ[t]] > 0 /\ is_evictable_[targ[t]]
  /\ curr_size_ = Cardinality(Evictable)

\* ----------------------------------------------- ExtendibleHashTable claims
\* what find(key) gives for a key whose last insert stored value (NoVal: none)
Found(value) ==
  IF value = NoVal THEN [found |-> FALSE, value |-> NoVal]
  ELSE [found |-> TRUE, value |-> value]

\* the local depth seen through each slot, and the entries holding a key
Depths == [i \in 1..Len(dir_) |-> heap[dir_[i]].depth]
EntriesOf(key) ==
  {<<p, i>> \in (DOMAIN heap) \X (1..MaxBucketSize) :
     i <= Len(heap[p].list) /\ heap[p].list[i][1] = key}

\* C6: after any sequence of Insert and Remove calls Find(k) gives the value
\* of the last Insert(k, v) not followed by a Remove(k), and nothing for a key
\* never inserted or removed last, across every doubling and split.
C6_FindRoundTrip ==
  hpc = "idle" => \A key \in Keys : Find(key) = Found(stored[key])

\* the directory has doubled twice, three buckets or more exist, a key was
\* just removed and two keys are still stored, one with the second value
C6_Witness ==
  /\ hpc = "idle"
  /\ hlast = [op |-> "Remove", res |-> "true"]
  /\ global_depth_ = 2 /\ num_buckets_ >= 3
  /\ \E k1, k2 \in Keys : k1 # k2 /\ stored[k1] = 1 /\ stored[k2] = 2

\* C7: Insert(k, v2) for a stored key k overwrites the value and returns with
\* no split step, for every bucket_size and also with k's bucket full:
\* global_depth, the directory, every local depth and num_buckets are
\* unchanged, and one entry for k exists afterwards.
C7_UpsertKeepsStructure ==
  [][\A key \in Keys :
       (/\ stored[key] # NoVal
        /\ \/ hpc = "idle" /\ \E value \in Vals : Insert(key, value)
           \/ hpc = "insert" /\ ins_key = key /\ (SplitStep \/ InsertFinish)) =>
         /\ UNCHANGED <<global_depth_, dir_, num_buckets_>>
         /\ Depths' = Depths
         /\ hpc' = "idle" => Cardinality(EntriesOf(key)') = 1]_hvars

\* C8: every Insert call terminates, for every bucket_size and every table
\* state (k already in a full bucket included): the while loop is left with
\* the key stored after at most hash-width iterations, so whenever the loop
\* has to go round again fewer than hash-width iterations were made and the
\* target bucket's local depth is below the hash width.
C8_InsertTerminates ==
  (hpc = "insert" /\ IsFull(heap[Target(ins_key)])) =>
    /\ iters < HashBits
    /\ heap[Target(ins_key)].depth < HashBits

\* every entry of the table, as bucket and place in its list
Entries ==
  {<<p, i>> \in (DOMAIN heap) \X (1..MaxBucketSize) : i <= Len(heap[p].list)}

\* C12: Remove(k) returns true iff k was stored and then erases that entry
\* alone; it never changes global_depth, the directory, a local depth or
\* num_buckets, leaves every other key found with its value as before, and
\* for an absent key returns false with the whole structure unchanged.
C12_RemoveErasesOneEntry ==
  [][hlast'.op = "Remove" =>
       \A key \in Keys :
         HRemove(key) =>
           /\ hlast'.res = (IF EntriesOf(key) # {} THEN "true" ELSE "false")
           /\ UNCHANGED <<global_depth_, dir_, num_buckets_>>
           /\ Depths' = Depths
           /\ \A other \in Keys \ {key} : Find(other)' = Find(other)
           /\ EntriesOf(key)' = {}
           /\ EntriesOf(key) # {} =>
                Cardinality(Entries') = Cardinality(Entries) - 1
           /\ EntriesOf(key) = {} => UNCHANGED heap]_hvars

\* Remove has returned true in a table that has split, and another key is
\* still in the bucket the removed key was in
C12_Witness ==
  /\ hlast = [op |-> "Remove", res |-> "true"]
  /\ num_buckets_ >= 2
  /\ \E key \in Keys :
       /\ stored[key] = NoVal
       /\ heap[Target(key)].list # <<>>

\* the buckets that the directory points to
Referenced == {dir_[i] : i \in 1..Len(dir_)}

\* C13: num_buckets is the number of distinct buckets the directory points
\* to; that is 1 in a new table, and each iteration of the split loop raises
\* both the counter and the number of buckets pointed to by exactly one.
C13_NumBucketsCountsBuckets ==
  /\ [](num_buckets_ = Cardinality(Referenced))
  /\ [](hlast.op = "new" /\ hpc = "idle" => num_buckets_ = 1)
  /\ [][SplitStep =>
          /\ num_buckets_' = num_buckets_ + 1
          /\ Cardinality(Referenced') = Cardinality(Referenced) + 1]_hvars

\* between two calls, after two splits and a Remove
C13_Witness ==
  /\ hpc = "idle"
  /\ hlast.op = "Remove"
  /\ num_buckets_ = 3
  /\ Cardinality(Referenced) = 3

\* the low d bits of a slot index or of a hash
LowBits(h, d) == h % (2 ^ d)
\* the slots (counted from 0) that point to bucket p
SlotsOf(p) == {i \in 0..(Len(dir_) - 1) : dir_[i + 1] = p}

\* C14: the directory has 2^global_depth slots; no bucket pointed to has a
\* local depth above global_depth; the slots that point to one bucket of
\* local depth d agree on their low d bits and are all the slots with those
\* bits, 2^(global_depth - d) of them.
C14_DirectoryInvariant ==
  /\ Len(dir_) = 2 ^ global_depth_
  /\ \A p \in Referenced :
       LET d == heap[p].depth IN
       /\ d <= global_depth_
       /\ \E bits \in 0..(2 ^ d - 1) :
            SlotsOf(p) = {i \in 0..(Len(dir_) - 1) : LowBits(i, d) = bits}
       /\ Cardinality(SlotsOf(p)) = 2 ^ (global_depth_ - d)

\* a directory of four slots in which one bucket is pointed to by two slots
\* and two buckets by one slot each
C14_Witness ==
  /\ global_depth_ = 2
  /\ \E p \in Referenced : heap[p].depth = 1 /\ Cardinality(SlotsOf(p)) = 2
  /\ \E p \in Referenced : heap[p].depth = 2

\* the keys that bucket b holds
KeysIn(b) == {b.list[i][1] : i \in 1..Len(b.list)}

\* every key of a bucket has the low bits that the bucket's slots share, and
\* the slot of a key points to the bucket that holds it
KeysAreInPlace ==
  \A p \in Referenced :
    \A key \in KeysIn(heap[p]) :
      /\ \A i \in SlotsOf(p) :
           LowBits(Hash(key), heap[p].depth) = LowBits(i, heap[p].depth)
      /\ Target(key) = p

\* C15: the hash of every key in a bucket has, in its low local_depth bits,
\* the bits that the bucket's slots share; dir_[IndexOf(k)] points to the
\* bucket that holds k; and a split of a bucket of depth d sends an entry to
\* the bucket of the slots with bit d set exactly when bit d of its hash is
\* set.
C15_KeyPlacement ==
  /\ []KeysAreInPlace
  /\ [][SplitStep =>
          LET origin == Target(ins_key)
              d == heap[origin].depth
          IN \A key \in KeysIn(heap[origin]) :
               /\ \E p \in DOMAIN heap' : key \in KeysIn(heap'[p])
               /\ \A p \in DOMAIN heap' :
                    key \in KeysIn(heap'[p]) =>
                      \A i \in 1..Len(dir_') :
                        dir_'[i] = p =>
                          (BitSet(i - 1, d) <=> BitSet(Hash(key), d))]_hvars

\* a bucket of depth 2 holds a key with bit 1 set after two splits
C15_Witness ==
  /\ hpc = "idle"
  /\ \E p \in Referenced :
       /\ heap[p].depth = 2
       /\ \E key \in KeysIn(heap[p]) : BitSet(Hash(key), 1)
  /\ \E p \in Referenced : heap[p].depth = 2 /\ heap[p].list = <<>>

\* how many entries of the table are the pair (key, value)
PairCount(key, value) ==
  Cardinality({e \in Entries : heap[e[1]].list[e[2]] = <<key, value>>})

\* C16: a key is in at most one bucket and there at most once, and an
\* iteration of the split loop leaves the multiset of (key, value) pairs of
\* the table as it was.
C16_SplitKeepsEntries ==
  /\ [](\A key \in Keys : Cardinality(EntriesOf(key)) <= 1)
  /\ [][SplitStep =>
          \A key \in Keys, value \in Vals :
            PairCount(key, value)' = PairCount(key, value)]_hvars

\* inside Insert, after a split that has divided two entries between two
\* buckets
C16_Witness ==
  /\ hpc = "insert"
  /\ iters >= 1
  /\ Cardinality(Entries) = 2
  /\ \E p, q \in Referenced :
       p # q /\ heap[p].list # <<>> /\ heap[q].list # <<>>

\* C20: no bucket holds more than bucket_size entries, and when Insert(k, v)
\* of a key that is not in the table reaches its end, k is in the table with
\* v: the last Bucket::Insert is not refused.
C20_BucketCapacity ==
  /\ [](\A p \in DOMAIN heap : Len(heap[p].list) <= bucket_size_)
  /\ [][hlast'.op = "Insert" =>
          \A key \in Keys, value \in Vals :
            Store(key, value) /\ EntriesOf(key) = {} =>
              /\ Find(key)' = [found |-> TRUE, value |-> value]
              /\ Cardinality(Entries') = Cardinality(Entries) + 1]_hvars

\* an Insert that had to split has returned, and a bucket of two places is
\* full
C20_Witness ==
  /\ hpc = "idle"
  /\ hlast.op = "Insert"
  /\ bucket_size_ = 2
  /\ num_buckets_ >= 2
  /\ Cardinality(Entries) = 3
  /\ \E p \in Referenced : Len(heap[p].list) = bucket_size_

====
